---- MODULE Spec2Model ----
(***************************************************************************)
(* Model of the API handlers of the course-review application:             *)
(*   - the review submission handler   (pages/api/reviews)                 *)
(*   - the code-send handler           (pages/api/verifications)           *)
(*   - the webhook revalidation handler                                    *)
(*   - getCourse of the content store read client                          *)
(* A handler is cut into steps at its awaited calls; the code between two  *)
(* awaits runs atomically (single JavaScript thread).                      *)
(***************************************************************************)
EXTENDS Integers, Sequences, FiniteSets, TLC

VARIABLES reqs, validateErrors, vreq, wreq, creq

vars == <<reqs, validateErrors, vreq, wreq, creq>>

(* ------------------------------ bounds --------------------------------- *)

\* number of fields of a review payload that differ from a well-formed one
MaxDeviations == 2
\* number of review submissions in flight at once
NumRequests == 2
\* length of a course code, in characters
MaxCodeLen == 3
\* number of distinct user names offered to the code-send handler
MaxNames == 3

Requests == 1..NumRequests
Methods == {"POST", "GET"}

(* ------------------------- JSON payload values -------------------------- *)

Absent == [t |-> "absent", v |-> 0]
Bool == [t |-> "boolean", v |-> 0]
Str(k) == [t |-> "string", v |-> k]
Num(n) == [t |-> "number", v |-> n]

(* ------------------- review submission: the schema ---------------------- *)

NoRange == <<>>

schema ==
  [type |-> "object",
   properties |->
     [courseId   |-> [type |-> "string", range |-> NoRange],
      semesterId |-> [type |-> "string", range |-> NoRange],
      rating     |-> [type |-> "number", range |-> <<1, 5>>],
      difficulty |-> [type |-> "number", range |-> <<1, 5>>],
      workload   |-> [type |-> "number", range |-> <<1, 100>>],
      body       |-> [type |-> "string", range |-> NoRange],
      username   |-> [type |-> "string", range |-> NoRange],
      code       |-> [type |-> "string", range |-> NoRange]],
   required |-> <<>>]

\* the properties in the order the schema lists them
PropertyOrder ==
  <<"courseId", "semesterId", "rating", "difficulty", "workload", "body",
    "username", "code">>

FieldSet == {PropertyOrder[k] : k \in 1..Len(PropertyOrder)}

\* faulty variant of InRange: exclusive limits
InRangeExclusive(n, range) == n > range[1] /\ n < range[2]

\* the range keyword of ajv-keywords: minimum and maximum, both inclusive
InRange(n, range) == n >= range[1] /\ n <= range[2]

TypeError(type) ==
  [keyword |-> "type",
   message |-> IF type = "object" THEN "must be object"
               ELSE IF type = "string" THEN "must be string"
               ELSE "must be number"]

RangeErrors(n, range) ==
  << IF n < range[1]
       THEN [keyword |-> "minimum", message |-> "must be >= 1"]
       ELSE [keyword |-> "maximum",
             message |-> IF range[2] = 5 THEN "must be <= 5"
                         ELSE "must be <= 100"],
     [keyword |-> "range",
      message |-> "must pass \"range\" keyword validation"] >>

\* the errors of one property value against its sub-schema
ValidateProperty(s, val) ==
  IF val.t = "absent" THEN <<>>
  ELSE IF val.t # s.type THEN <<TypeError(s.type)>>
  ELSE IF s.range # NoRange /\ ~InRange(val.v, s.range)
    THEN RangeErrors(val.v, s.range)
  ELSE <<>>

\* the required keyword: the first required property that is missing
RECURSIVE RequiredErrors(_, _)
RequiredErrors(required, f) ==
  IF required = <<>> THEN <<>>
  ELSE IF f[Head(required)].t = "absent"
    THEN <<[keyword |-> "required",
            message |-> "must have required property"]>>
  ELSE RequiredErrors(Tail(required), f)

\* the properties keyword; the validator stops at the first failing property
RECURSIVE PropertiesErrors(_, _)
PropertiesErrors(order, f) ==
  IF order = <<>> THEN <<>>
  ELSE LET e == ValidateProperty(schema.properties[Head(order)], f[Head(order)])
       IN IF e # <<>> THEN e ELSE PropertiesErrors(Tail(order), f)

\* validate(payload): the value left in validate.errors, <<>> (null) when the
\* payload is valid
Validate(payload) ==
  IF payload.kind # schema.type THEN <<TypeError(schema.type)>>
  ELSE LET r == RequiredErrors(schema.required, payload.f)
       IN IF r # <<>> THEN r ELSE PropertiesErrors(PropertyOrder, payload.f)

\* the reduce at lines 115-118: the messages of the errors that have one
RECURSIVE ErrorMessages(_)
ErrorMessages(errors) ==
  IF errors = <<>> THEN <<>>
  ELSE IF Head(errors).message # ""
    THEN <<Head(errors).message>> \o ErrorMessages(Tail(errors))
  ELSE ErrorMessages(Tail(errors))

(* ---------------------- response bodies and calls ----------------------- *)

EmptyBody == [kind |-> "empty", msgs |-> <<>>]
ErrorsBody(msgs) == [kind |-> "errors", msgs |-> msgs]
ErrorBody(msg) == [kind |-> "error", msgs |-> <<msg>>]
RevalidatedBody == [kind |-> "revalidated", msgs |-> <<>>]

MismatchMessage == "The supplied code doesn't match the code that was sent."
ReviewErrorMessage == "Error creating review. Try again later."

\* res.status(status).json(body).  The first call sends the response.  A later
\* call cannot change it: the response object either raises an error (headers
\* already sent; x.strict) or takes the call without effect on the wire.
Respond(x, status, body) ==
  IF x.calls # <<>> /\ x.strict
    THEN [x EXCEPT !.pc = "threw"]
    ELSE [x EXCEPT !.calls = Append(@, [status |-> status, body |-> body])]

\* the end of the handler: it returns, or an error escapes it
Finish(x) ==
  IF x.pc = "threw" THEN [x EXCEPT !.pc = "rejected"]
  ELSE [x EXCEPT !.pc = "done"]

Log(x, e) == [x EXCEPT !.ev = Append(@, e)]

(* -------------------- review submission: the handler -------------------- *)

\* faulty variant of ValidateErrorsRead: the error list as it was before this call
ValidateErrorsStale(fresh, shared) == shared

\* validate.errors as read at line 115, right after validate(payload)
ValidateErrorsRead(fresh, shared) == fresh

\* line 142
ReviewTail(x) == Finish(Respond(x, 201, EmptyBody))

\* lines 137-142: the catch block, then the statement after the try
ReviewCatch(x) ==
  LET x1 == Respond([x EXCEPT !.pc = "run"], 500, ErrorsBody(<<ReviewErrorMessage>>))
  IN IF x1.pc = "threw" THEN Finish(x1)
     ELSE ReviewTail(Log(x1, "captureException"))

\* lines 105-127: up to the await of doesUserCodeMatch
ReviewBegin(x, errors) ==
  LET x1 == IF x.method # "POST" THEN Respond(x, 405, EmptyBody) ELSE x
      x2 == Log(x1, "validate")
  IN IF Validate(x.payload) # <<>>
       THEN Finish(Respond(x2, 400, ErrorsBody(ErrorMessages(errors))))
       ELSE [Log(x2, "doesUserCodeMatch") EXCEPT !.pc = "awaitVerify"]

\* the review passed to createReview: the payload without code
ReviewOf(payload) == [k \in FieldSet \ {"code"} |-> payload.f[k]]

\* faulty variant of ReviewOnVerify: no return after the mismatch response
ReviewOnVerifyNoReturn(x, r) ==
  IF r = "throw" THEN ReviewCatch(Log(x, "verifyThrew"))
  ELSE IF r = "false"
    THEN LET x1 == Respond(Log(x, "verifyFalse"), 400, ErrorsBody(<<MismatchMessage>>))
         IN [Log(x1, "createReview") EXCEPT !.pc = "awaitCreate"]
  ELSE [Log(Log(x, "verifyTrue"), "createReview") EXCEPT !.pc = "awaitCreate"]

\* lines 127-136: from the result of doesUserCodeMatch to the await of
\* createReview
ReviewOnVerify(x, r) ==
  IF r = "throw" THEN ReviewCatch(Log(x, "verifyThrew"))
  ELSE IF r = "false"
    THEN LET x1 == Respond(Log(x, "verifyFalse"), 400, ErrorsBody(<<MismatchMessage>>))
         IN IF x1.pc = "threw" THEN ReviewCatch(x1) ELSE Finish(x1)
  ELSE [Log(Log(x, "verifyTrue"), "createReview") EXCEPT !.pc = "awaitCreate"]

\* lines 136-142: from the result of createReview to the end
ReviewOnCreate(x, r) ==
  IF r = "throw" THEN ReviewCatch(Log(x, "createThrew"))
  ELSE ReviewTail([Log(x, "created") EXCEPT
                     !.persisted = Append(@, ReviewOf(x.payload))])

VerifyResults == {"true", "false", "throw"}
CreateResults == {"ok", "throw"}

NewRequest(m, p, s) ==
  [method |-> m, payload |-> p, strict |-> s, pc |-> "start",
   ev |-> <<>>, calls |-> <<>>, persisted |-> <<>>]

\* a well-formed review payload; its numbers lie on the limits of the ranges
BaseFields(k) ==
  [courseId |-> Str(k), semesterId |-> Str(k), rating |-> Num(1),
   difficulty |-> Num(5), workload |-> Num(100), body |-> Str(k),
   username |-> Str(k), code |-> Str(k)]

NumSamples == {0, 1, 5, 6, 100, 101}
Values == {Absent, Bool, Str(0)} \cup {Num(n) : n \in NumSamples}

ObjectPayloads ==
  UNION {{[kind |-> "object",
           f |-> [k \in FieldSet |-> IF k \in S THEN alt[k] ELSE BaseFields(0)[k]]]
            : alt \in [S -> Values]}
          : S \in {T \in SUBSET FieldSet : Cardinality(T) <= MaxDeviations}}

OtherPayloads ==
  {[kind |-> k, f |-> BaseFields(0)] : k \in {"null", "string", "array"}}

Payloads == ObjectPayloads \cup OtherPayloads

IdleRequest == [NewRequest("POST", [kind |-> "null", f |-> BaseFields(0)], FALSE)
                  EXCEPT !.pc = "idle"]

Begin(i) ==
  /\ reqs[i].pc = "start"
  /\ LET fresh == Validate(reqs[i].payload)
     IN /\ validateErrors' = fresh
        /\ reqs' = [reqs EXCEPT ![i] =
                      ReviewBegin(@, ValidateErrorsRead(fresh, validateErrors))]
  /\ UNCHANGED <<vreq, wreq, creq>>

VerifyReturn(i) ==
  /\ reqs[i].pc = "awaitVerify"
  /\ \E r \in VerifyResults : reqs' = [reqs EXCEPT ![i] = ReviewOnVerify(@, r)]
  /\ UNCHANGED <<validateErrors, vreq, wreq, creq>>

CreateReturn(i) ==
  /\ reqs[i].pc = "awaitCreate"
  /\ \E r \in CreateResults : reqs' = [reqs EXCEPT ![i] = ReviewOnCreate(@, r)]
  /\ UNCHANGED <<validateErrors, vreq, wreq, creq>>

(* ------------------------- the code-send handler ------------------------ *)

SendErrorMessage == "Error generating token. Try again later."

\* the outcomes of sendCodeToUser: the values of SendCodeResponse, or an error
SendResults == {"SUCCESS", "INVALID_EMAIL", "MAX_ATTEMPTS_REACHED", "throw"}

\* the request bodies: JSON null, a string, or an object whose username is
\* missing, not a string, or one of the names
SendBodies ==
  {[kind |-> "null", username |-> Absent], [kind |-> "string", username |-> Absent]}
    \cup {[kind |-> "object", username |-> u]
            : u \in {Absent, Bool} \cup {Str(k) : k \in 1..MaxNames}}

\* lines 37-40: the catch block
SendCatch(x) ==
  LET x1 == Respond([x EXCEPT !.pc = "run"], 500, ErrorBody(SendErrorMessage))
  IN IF x1.pc = "threw" THEN Finish(x1)
     ELSE Finish(Log(x1, "captureException"))

\* lines 15-28: up to the await of sendCodeToUser.  Destructuring null raises a
\* TypeError; a string has no username property.
SendBegin(x) ==
  LET x1 == IF x.method # "POST" THEN Respond(x, 405, EmptyBody) ELSE x
  IN IF x.body.kind = "null"
       THEN [Log(x1, "TypeError") EXCEPT !.pc = "rejected"]
     ELSE IF x.body.username.t = "absent"
       THEN Finish(Respond(x1, 400, ErrorBody("GATech username required")))
     ELSE [Log(x1, "sendCodeToUser") EXCEPT !.pc = "awaitSend"]

\* lines 28-40: from the result of sendCodeToUser to the end
SendOnResult(x, r) ==
  IF r = "throw" THEN SendCatch(Log(x, "sendThrew"))
  ELSE LET x0 == Log(x, r)
           x1 == IF r = "SUCCESS" THEN Respond(x0, 201, EmptyBody)
                 ELSE IF r = "INVALID_EMAIL"
                   THEN Respond(x0, 400, ErrorBody("Invalid username"))
                 ELSE Respond(x0, 400, ErrorBody("Too many send attempts"))
       IN IF x1.pc = "threw" THEN SendCatch(x1) ELSE Finish(x1)

VBegin ==
  /\ vreq.pc = "start"
  /\ vreq' = SendBegin(vreq)
  /\ UNCHANGED <<reqs, validateErrors, wreq, creq>>

VSendReturn ==
  /\ vreq.pc = "awaitSend"
  /\ \E r \in SendResults : vreq' = SendOnResult(vreq, r)
  /\ UNCHANGED <<reqs, validateErrors, wreq, creq>>

(* -------------------- the webhook revalidation handler ------------------ *)

RevalidateErrorMessage == "Error revalidating. Try again later."
SignatureErrorMessage == "Invalid signature"

CourseCodes == {"CS-6200", "CS-6035"}

\* the raw request bodies: text that is not JSON, JSON null, an object without
\* course, and a review payload naming a course code
WebhookBodies ==
  {[json |-> k, code |-> ""] : k \in {"invalid", "null", "noCourse"}}
    \cup {[json |-> "review", code |-> c] : c \in CourseCodes}

\* the signature header: missing, repeated (an array), a malformed string, or
\* the signature of one of the bodies under SECRET
WebhookSignatures ==
  {[t |-> k, of |-> [json |-> "invalid", code |-> ""]] : k \in {"missing", "array", "malformed"}}
    \cup {[t |-> "string", of |-> b] : b \in WebhookBodies}

\* faulty variant of isValidSignature: any well-formed signature is taken
isValidSignatureAny(body, signature) == signature.t = "string"

\* isValidSignature(body, signature, SECRET)
isValidSignature(body, signature) == signature.t = "string" /\ signature.of = body

\* lines 52-55: the catch block
WebhookCatch(x) ==
  Finish(Log(Respond(x, 500, ErrorBody(RevalidateErrorMessage)), "captureException"))

\* lines 34-42: up to the await of readBody
WebhookBegin(x) ==
  IF x.signature.t \in {"missing", "array"}
    THEN Finish(Respond(x, 401, ErrorBody(SignatureErrorMessage)))
    ELSE [Log(x, "readBody") EXCEPT !.pc = "awaitRead"]

\* lines 42-50: from the raw body to the await of res.revalidate
WebhookOnBody(x, r) ==
  IF r = "throw" THEN WebhookCatch(Log(x, "readThrew"))
  ELSE IF ~isValidSignature(x.body, x.signature)
    THEN Finish(Respond(Log(x, "signatureInvalid"), 401, ErrorBody(SignatureErrorMessage)))
  ELSE LET x1 == Log(Log(x, "signatureValid"), "JSON.parse")
       IN IF x.body.json = "invalid" THEN WebhookCatch(Log(x1, "SyntaxError"))
          ELSE IF x.body.json \in {"null", "noCourse"}
            THEN WebhookCatch(Log(x1, "TypeError"))
          ELSE [Log(x1, "revalidate") EXCEPT !.pc = "awaitRevalidate",
                                            !.path = x.body.code]

\* lines 50-55: from the result of res.revalidate to the end
WebhookOnRevalidate(x, r) ==
  IF r = "throw" THEN WebhookCatch(Log(x, "revalidateThrew"))
  ELSE Finish(Respond(Log(x, "revalidated"), 200, RevalidatedBody))

WBegin ==
  /\ wreq.pc = "start"
  /\ wreq' = WebhookBegin(wreq)
  /\ UNCHANGED <<reqs, validateErrors, vreq, creq>>

WReadReturn ==
  /\ wreq.pc = "awaitRead"
  /\ \E r \in {"ok", "throw"} : wreq' = WebhookOnBody(wreq, r)
  /\ UNCHANGED <<reqs, validateErrors, vreq, creq>>

WRevalidateReturn ==
  /\ wreq.pc = "awaitRevalidate"
  /\ \E r \in {"ok", "throw"} : wreq' = WebhookOnRevalidate(wreq, r)
  /\ UNCHANGED <<reqs, validateErrors, vreq, creq>>

(* ------------------------------- getCourse ------------------------------ *)

\* characters are their code units: line feed, '-', '1', 'A', '_', 'z'
Alphabet == {10, 45, 49, 65, 95, 122}

RECURSIVE Strings(_)
Strings(n) ==
  IF n = 0 THEN {<<>>}
  ELSE Strings(n - 1) \cup {Append(s, c) : s \in {t \in Strings(n - 1) : Len(t) = n - 1}, c \in Alphabet}

EnrichmentOptions == {"NONE", "STATS", "REVIEWS"}

\* faulty variant of InDepartmentClass: the letters only
InLetters(c) == (c >= 65 /\ c <= 90) \/ (c >= 97 /\ c <= 122)

\* the character class [A-z]: every code unit from 'A' to 'z'
InDepartmentClass(c) == c >= 65 /\ c <= 122

\* the character class . (no s flag): anything but a line terminator
InDot(c) == c \notin {10, 13, 8232, 8233}

\* the longest prefix of code inside [A-z]
RECURSIVE DepartmentLen(_, _)
DepartmentLen(code, k) ==
  IF k < Len(code) /\ InDepartmentClass(code[k + 1])
    THEN DepartmentLen(code, k + 1) ELSE k

\* code.match(/^(?<department>[A-z]+)-(?<number>.+)$/)
Match(code) ==
  LET k == DepartmentLen(code, 0)
      n == Len(code)
  IN IF /\ k >= 1
        /\ n >= k + 2
        /\ code[k + 1] = 45
        /\ \A j \in (k + 2)..n : InDot(code[j])
       THEN [matched |-> TRUE, department |-> SubSeq(code, 1, k),
             number |-> SubSeq(code, k + 2, n)]
       ELSE [matched |-> FALSE, department |-> <<>>, number |-> <<>>]

\* getReviewPair: the review projection of the query
getReviewPair(option) ==
  IF option = "NONE" THEN "none"
  ELSE IF option = "REVIEWS" THEN "reviews with body and semester"
  ELSE "reviews"

\* getCourse: an error naming the code, or the fetch it issues
getCourse(code, option) ==
  LET m == Match(code)
  IN IF ~m.matched
       THEN [kind |-> "error", error |-> "Code doesn't match format", names |-> code,
             department |-> <<>>, number |-> <<>>, reviews |-> ""]
     ELSE IF m.department = <<>> \/ m.number = <<>>
       THEN [kind |-> "error", error |-> "Can't parse department or number from code",
             names |-> code, department |-> <<>>, number |-> <<>>, reviews |-> ""]
     ELSE [kind |-> "fetch", error |-> "", names |-> <<>>,
           department |-> m.department, number |-> m.number,
           reviews |-> getReviewPair(option)]

CGetCourse ==
  /\ creq.pc = "start"
  /\ creq' = [creq EXCEPT !.pc = "done", !.result = getCourse(creq.code, creq.option)]
  /\ UNCHANGED <<reqs, validateErrors, vreq, wreq>>

(* ---------------------------- specifications ---------------------------- *)

IdleReviews ==
  /\ reqs = [i \in Requests |-> IdleRequest]
  /\ validateErrors = <<>>

IdleSend == vreq = [pc |-> "idle"]
IdleWebhook == wreq = [pc |-> "idle"]
IdleCourse == creq = [pc |-> "idle"]

\* one review submission, any payload
Init ==
  /\ \E m \in Methods, p \in Payloads, s \in BOOLEAN :
       reqs = [i \in Requests |-> IF i = 1 THEN NewRequest(m, p, s) ELSE IdleRequest]
  /\ validateErrors = <<>>
  /\ IdleSend /\ IdleWebhook /\ IdleCourse

Next ==
  \/ \E i \in Requests : Begin(i)
  \/ \E i \in Requests : VerifyReturn(i)
  \/ \E i \in Requests : CreateReturn(i)

Spec == Init /\ [][Next]_vars

\* review submissions in flight together; request i sends its own strings
ConcPayloads(i) ==
  {[kind |-> "object", f |-> BaseFields(i)],
   [kind |-> "object", f |-> [BaseFields(i) EXCEPT !.rating = Num(6)]],
   [kind |-> "object", f |-> [BaseFields(i) EXCEPT !.username = Bool]],
   [kind |-> "null", f |-> BaseFields(i)]}

InitConc ==
  /\ reqs \in [Requests -> {NewRequest(m, p, TRUE)
                              : m \in Methods, p \in UNION {ConcPayloads(i) : i \in Requests}}]
  /\ \A i \in Requests : reqs[i].payload \in ConcPayloads(i)
  /\ validateErrors = <<>>
  /\ IdleSend /\ IdleWebhook /\ IdleCourse

SpecConc == InitConc /\ [][Next]_vars

\* one request to the code-send handler
InitSend ==
  /\ \E m \in Methods, b \in SendBodies, s \in BOOLEAN :
       vreq = [method |-> m, body |-> b, strict |-> s, pc |-> "start",
               ev |-> <<>>, calls |-> <<>>]
  /\ IdleReviews /\ IdleWebhook /\ IdleCourse

NextSend == VBegin \/ VSendReturn

SpecSend == InitSend /\ [][NextSend]_vars

\* one webhook delivery
InitWebhook ==
  /\ \E g \in WebhookSignatures, b \in WebhookBodies :
       wreq = [signature |-> g, body |-> b, strict |-> TRUE, pc |-> "start",
               ev |-> <<>>, calls |-> <<>>, path |-> ""]
  /\ IdleReviews /\ IdleSend /\ IdleCourse

NextWebhook == WBegin \/ WReadReturn \/ WRevalidateReturn

SpecWebhook == InitWebhook /\ [][NextWebhook]_vars

\* one call of getCourse
InitCourse ==
  /\ \E c \in Strings(MaxCodeLen), o \in EnrichmentOptions :
       creq = [code |-> c, option |-> o, pc |-> "start",
               result |-> getCourse(<<>>, "NONE")]
  /\ IdleReviews /\ IdleSend /\ IdleWebhook

NextCourse == CGetCourse

SpecCourse == InitCourse /\ [][NextCourse]_vars

(* ------------------------------ properties ------------------------------ *)

Has(seq, e) == \E k \in DOMAIN seq : seq[k] = e
Count(seq, e) == Cardinality({k \in DOMAIN seq : seq[k] = e})
Finished(x) == x.pc \in {"done", "rejected"}
Live == {i \in Requests : reqs[i].pc # "idle"}

\* C1: createReview is invoked exactly when the payload passed validation and
\* doesUserCodeMatch returned true earlier in the same request: at most once,
\* right after the true result, never after a false result or a thrown error,
\* never for an invalid payload, and always after a true result.
C1_CreateIffMatch ==
  \A i \in Live :
    LET x == reqs[i]
    IN /\ Count(x.ev, "createReview") <= 1
       /\ \A k \in DOMAIN x.ev :
            x.ev[k] = "createReview" =>
              /\ k > 1 /\ x.ev[k - 1] = "verifyTrue"
              /\ Validate(x.payload) = <<>>
              /\ \E j \in 1..(k - 1) : x.ev[j] = "validate"
       /\ \A k \in DOMAIN x.ev :
            x.ev[k] = "verifyTrue" => k < Len(x.ev) /\ x.ev[k + 1] = "createReview"
       /\ (Has(x.ev, "verifyFalse") \/ Has(x.ev, "verifyThrew") \/ Validate(x.payload) # <<>>)
            => ~Has(x.ev, "createReview")
       /\ Has(x.ev, "created") => Has(x.ev, "createReview")

C1_Witness ==
  \E i \in Live :
    /\ Finished(reqs[i])
    /\ Has(reqs[i].ev, "verifyTrue")
    /\ Has(reqs[i].ev, "createReview")

\* C2: one Review is persisted when the request is answered 201, none when it
\* is answered 400, 405 or 500.
C2_PersistedMatchesResponse ==
  \A i \in Live :
    LET x == reqs[i]
    IN (Finished(x) /\ x.calls # <<>>) =>
         /\ x.calls[1].status = 201 => Len(x.persisted) = 1
         /\ x.calls[1].status \in {400, 405, 500} => x.persisted = <<>>

\* C3: a request whose method is not POST gets 405 with an empty body as its
\* only response, and nothing else is done for it (both handlers).
C3_NonPostOnly405 ==
  /\ \A i \in Live :
       LET x == reqs[i]
       IN (x.method # "POST" /\ x.pc # "start") =>
            /\ x.calls = <<[status |-> 405, body |-> EmptyBody]>>
            /\ x.ev = <<>>
  /\ (vreq.pc \notin {"idle", "start"} /\ vreq.method # "POST") =>
       /\ vreq.calls = <<[status |-> 405, body |-> EmptyBody]>>
       /\ vreq.ev = <<>>

\* C4: when doesUserCodeMatch or createReview throws, the only response is 500
\* with the generic message and the error is reported once.
C4_ThrowGives500 ==
  \A i \in Live :
    LET x == reqs[i]
    IN (Finished(x) /\ (Has(x.ev, "verifyThrew") \/ Has(x.ev, "createThrew"))) =>
         /\ x.calls = <<[status |-> 500, body |-> ErrorsBody(<<ReviewErrorMessage>>)]>>
         /\ Count(x.ev, "captureException") = 1

\* C5: a payload with a listed field absent fails validation: 400 and neither
\* verification nor persistence.
C5_AbsentFieldRejected ==
  \A i \in Live :
    LET x == reqs[i]
    IN (/\ x.pc # "start"
        /\ x.payload.kind = "object"
        /\ \E k \in FieldSet : x.payload.f[k] = Absent) =>
         /\ ~Has(x.ev, "doesUserCodeMatch")
         /\ ~Has(x.ev, "createReview")
         /\ x.method = "POST" => (x.calls # <<>> /\ x.calls[1].status = 400)

OutOfRange(val, lo, hi) == val.t = "number" /\ (val.v < lo \/ val.v > hi)
OnLimit(val, lo, hi) == val.t = "number" /\ val.v \in {lo, hi}

\* C6: a POST payload whose rating or difficulty is outside [1,5] or whose
\* workload is outside [1,100] is answered 400 with a non-empty list of
\* messages and neither verified nor persisted; the limits 1, 5 and 100 pass.
C6_RangeChecked ==
  \A i \in Live :
    LET x == reqs[i]
        f == x.payload.f
    IN (x.method = "POST" /\ x.pc # "start" /\ x.payload.kind = "object") =>
         /\ (\/ OutOfRange(f.rating, 1, 5)
             \/ OutOfRange(f.difficulty, 1, 5)
             \/ OutOfRange(f.workload, 1, 100)) =>
              /\ x.pc = "done"
              /\ Len(x.calls) = 1
              /\ x.calls[1].status = 400
              /\ x.calls[1].body.kind = "errors"
              /\ x.calls[1].body.msgs # <<>>
              /\ ~Has(x.ev, "doesUserCodeMatch")
              /\ ~Has(x.ev, "createReview")
         /\ (/\ OnLimit(f.rating, 1, 5)
             /\ OnLimit(f.difficulty, 1, 5)
             /\ OnLimit(f.workload, 1, 100)
             /\ \A k \in FieldSet \ {"rating", "difficulty", "workload"} :
                  f[k].t = "string") =>
              Has(x.ev, "doesUserCodeMatch")

C6_Witness ==
  \E i \in Live :
    /\ reqs[i].method = "POST"
    /\ reqs[i].payload.kind = "object"
    /\ reqs[i].payload.f.workload = Num(101)
    /\ reqs[i].pc = "done"
    /\ reqs[i].calls[1].status = 400

\* C7: the response of the code-send handler to a POST: username absent gives
\* 400 without sendCodeToUser; otherwise one call of sendCodeToUser and 201,
\* 400 'Invalid username', 400 'Too many send attempts' or 500 with one report;
\* one response in every case.
C7_SendResponseTable ==
  (vreq.pc \in {"done", "rejected"} /\ vreq.method = "POST") =>
    /\ Len(vreq.calls) = 1
    /\ (vreq.body.kind # "object" \/ vreq.body.username = Absent) =>
         /\ vreq.calls[1].status = 400
         /\ ~Has(vreq.ev, "sendCodeToUser")
    /\ (vreq.body.kind = "object" /\ vreq.body.username # Absent) =>
         /\ Count(vreq.ev, "sendCodeToUser") = 1
         /\ Has(vreq.ev, "SUCCESS") =>
              vreq.calls[1] = [status |-> 201, body |-> EmptyBody]
         /\ Has(vreq.ev, "INVALID_EMAIL") =>
              vreq.calls[1] = [status |-> 400, body |-> ErrorBody("Invalid username")]
         /\ Has(vreq.ev, "MAX_ATTEMPTS_REACHED") =>
              vreq.calls[1] = [status |-> 400, body |-> ErrorBody("Too many send attempts")]
         /\ Has(vreq.ev, "sendThrew") =>
              /\ vreq.calls[1] = [status |-> 500, body |-> ErrorBody(SendErrorMessage)]
              /\ Count(vreq.ev, "captureException") = 1

\* the signature header is the signature of this very body
GoodSignature == wreq.signature.t = "string" /\ wreq.signature.of = wreq.body

\* C8: res.revalidate is invoked only after isValidSignature returned true for
\* the raw body; the status is 401 exactly when the header is missing, not a
\* string or fails verification, and then nothing is parsed or revalidated;
\* with a valid signature a failure of parsing or revalidation gives 500 and is
\* reported; success gives 200 {revalidated: true}.
C8_WebhookSignatureFirst ==
  (wreq.pc # "idle") =>
    /\ \A k \in DOMAIN wreq.ev :
         wreq.ev[k] \in {"JSON.parse", "revalidate"} =>
           \E j \in 1..(k - 1) : wreq.ev[j] = "signatureValid"
    /\ Has(wreq.ev, "signatureValid") => GoodSignature
    /\ Has(wreq.ev, "signatureInvalid") => ~GoodSignature
    /\ Has(wreq.ev, "revalidate") => wreq.path = wreq.body.code
    /\ Finished(wreq) =>
         /\ wreq.pc = "done"
         /\ Len(wreq.calls) = 1
         /\ wreq.calls[1].status = 401 <=>
              (wreq.signature.t \in {"missing", "array"} \/ Has(wreq.ev, "signatureInvalid"))
         /\ wreq.calls[1].status = 401 =>
              /\ wreq.calls[1].body = ErrorBody(SignatureErrorMessage)
              /\ ~Has(wreq.ev, "JSON.parse")
              /\ ~Has(wreq.ev, "revalidate")
         /\ (GoodSignature /\ Has(wreq.ev, "signatureValid") /\ ~Has(wreq.ev, "revalidated")) =>
              /\ wreq.calls[1] = [status |-> 500, body |-> ErrorBody(RevalidateErrorMessage)]
              /\ Count(wreq.ev, "captureException") = 1
         /\ Has(wreq.ev, "revalidated") =>
              /\ wreq.calls[1] = [status |-> 200, body |-> RevalidatedBody]
              /\ ~Has(wreq.ev, "captureException")

C8_Witness ==
  /\ wreq.pc = "done"
  /\ GoodSignature
  /\ wreq.body.json = "invalid"
  /\ Has(wreq.ev, "SyntaxError")
  /\ wreq.calls[1].status = 500

IsLetter(c) == (c >= 65 /\ c <= 90) \/ (c >= 97 /\ c <= 122)

\* the position of the first hyphen of code, 0 when it has none
FirstHyphen(code) ==
  IF \E k \in DOMAIN code : code[k] = 45
    THEN CHOOSE k \in DOMAIN code :
           code[k] = 45 /\ \A j \in 1..(k - 1) : code[j] # 45
    ELSE 0

\* <letters>-<rest>: one or more letters, a hyphen, a non-empty remainder
HasCourseForm(code) ==
  LET h == FirstHyphen(code)
  IN /\ h > 1
     /\ h < Len(code)
     /\ \A j \in 1..(h - 1) : IsLetter(code[j])

\* C9: a code that is not <letters>-<rest> makes getCourse throw an error
\* naming the code, with no fetch; a code of that form is fetched with the
\* department and number split at the first hyphen.
C9_CourseCodeForm ==
  (creq.pc = "done") =>
    LET h == FirstHyphen(creq.code)
    IN IF HasCourseForm(creq.code)
         THEN /\ creq.result.kind = "fetch"
              /\ creq.result.department = SubSeq(creq.code, 1, h - 1)
              /\ creq.result.number = SubSeq(creq.code, h + 1, Len(creq.code))
         ELSE /\ creq.result.kind = "error"
              /\ creq.result.names = creq.code

\* the outcome of doesUserCodeMatch and of createReview as the log records it
VerifyOutcome(x) ==
  IF Has(x.ev, "verifyTrue") THEN "true"
  ELSE IF Has(x.ev, "verifyFalse") THEN "false"
  ELSE IF Has(x.ev, "verifyThrew") THEN "throw" ELSE "none"

CreateOutcome(x) ==
  IF Has(x.ev, "created") THEN "ok"
  ELSE IF Has(x.ev, "createThrew") THEN "throw" ELSE "none"

\* the request handled alone, with the same collaborator results
Alone(x) ==
  LET a == ReviewBegin(NewRequest(x.method, x.payload, x.strict), Validate(x.payload))
      b == IF a.pc = "awaitVerify" /\ VerifyOutcome(x) # "none"
             THEN ReviewOnVerify(a, VerifyOutcome(x)) ELSE a
  IN IF b.pc = "awaitCreate" /\ CreateOutcome(x) # "none"
       THEN ReviewOnCreate(b, CreateOutcome(x)) ELSE b

\* C10: with submissions in flight together, each request's responses and
\* persisted review are those of the request handled alone; the messages of a
\* 400 validation response are those of the request's own payload.
C10_RequestsIndependent ==
  \A i \in Live :
    LET x == reqs[i]
    IN (x.pc # "start") =>
         /\ x = Alone(x)
         /\ \A k \in DOMAIN x.persisted : x.persisted[k] = ReviewOf(x.payload)
         /\ (Validate(x.payload) # <<>> /\ x.method = "POST") =>
              x.calls = <<[status |-> 400,
                           body |-> ErrorsBody(ErrorMessages(Validate(x.payload)))]>>

C10_Witness ==
  \E i, j \in Live :
    /\ i # j
    /\ reqs[i].pc = "awaitVerify"
    /\ reqs[j].pc = "done"
    /\ reqs[j].method = "POST"
    /\ Validate(reqs[j].payload) # <<>>
    /\ validateErrors = Validate(reqs[j].payload)
    /\ validateErrors # Validate(reqs[i].payload)

====
